---- MODULE Spec2Model ----
(***************************************************************************)
(* A model of chisel/src/main.rs: the resolution of a parsed YAML document *)
(* into a ChiselContext (ChiselContext::from_ruleset), the loading of the  *)
(* wasm binary (chisel_execute), the dispatch of every configured module   *)
(* (execute_module) and the exit code of the process                       *)
(* (chisel_subcommand_run, err_exit, main).                                *)
(***************************************************************************)
EXTENDS Integers, Sequences, FiniteSets

VARIABLES
    pc,          \* the position of the process in chisel_subcommand_run
    conf,        \* what read_to_string(config_path) returned, as the document it parses to
    ctx,         \* the ChiselContext built by from_ruleset
    err,         \* the message handed to err_exit (NoErr while none)
    out,         \* standard output: the sequence of lines printed so far
    exitCode,    \* the status the process exited with (NotExited while running)
    module,      \* the decoded wasm Module (NoModule before deserialize_buffer)
    idx,         \* the position of the iterator over context.get_modules()
    acc,         \* the accumulator of the fold in chisel_execute
    dispatched   \* history: one record per call of execute_module

vars == <<pc, conf, ctx, err, out, exitCode, module, idx, acc, dispatched>>

----------------------------------------------------------------------------
(* Bounds of the model. *)

\* the largest number of top-level entries of a document
MaxTop == 2
\* the largest number of entries of the ruleset bodies of one document
MaxEntries == 3

----------------------------------------------------------------------------
(* Error messages, main.rs lines 22-33. *)

ERR_NO_SUBCOMMAND == "No subcommand provided."
ERR_FAILED_OPEN_CONFIG == "Failed to open configuration file."
ERR_FAILED_OPEN_BINARY == "Failed to open wasm binary."
ERR_FAILED_PARSE_CONFIG == "Failed to parse configuration file."
ERR_CONFIG_INVALID == "Config is invalid."
ERR_CONFIG_MISSING_FILE == "Config missing file path to chisel."
ERR_INPUT_FILE_TYPE_MISMATCH == "Entry 'file' does not map to a string."
ERR_MODULE_TYPE_MISMATCH == "An entry 'module' does not point to a key-value map."
ERR_PRESET_TYPE_MISMATCH == "A field 'preset' belonging to a module is not a string"
ERR_DESERIALIZE_MODULE == "Failed to deserialize the wasm binary."

NoErr == "<none>"
NotExited == <<>>
NoModule == [loaded |-> FALSE]
Unparsable == [t |-> "Unparsable"]
NoConf == [t |-> "Unread"]

----------------------------------------------------------------------------
(* serde_yaml::Value.  A Mapping keeps its entries in insertion order, as  *)
(* a sequence of <<key, value>> pairs with pairwise distinct keys.         *)

V_String(s) == [t |-> "String", s |-> s]
V_Mapping(m) == [t |-> "Mapping", m |-> m]
V_Number(n) == [t |-> "Number", n |-> n]
V_Null == [t |-> "Null"]

\* Option<String>
None == [some |-> FALSE]
Some(s) == [some |-> TRUE, v |-> s]

\* Option::unwrap_or
unwrap_or(o, d) == IF o.some THEN o.v ELSE d

\* Value::as_str
as_str(v) == IF v.t = "String" THEN Some(v.s) ELSE None

\* Value::is_string
is_string(v) == v.t = "String"

\* Mapping::get: the value of the entry whose key equals k, if there is one
RECURSIVE GetFrom(_, _, _)
GetFrom(m, k, i) ==
    IF i > Len(m) THEN [found |-> FALSE]
    ELSE IF m[i][1] = k THEN [found |-> TRUE, v |-> m[i][2]]
    ELSE GetFrom(m, k, i + 1)

Mapping_get(m, k) == GetFrom(m, k, 1)

\* Mapping::remove: the other entries keep their order
Mapping_remove(m, k) == SelectSeq(m, LAMBDA e : e[1] # k)

----------------------------------------------------------------------------
(* ChiselContext::from_ruleset, main.rs lines 50-117. *)

\* ModuleContext::with_fields
with_fields(mod, pre) == [module_name |-> mod, preset |-> pre]

\* the closure of rules.iter().find(..), lines 57-60
IsRuleset(entry) == entry[1].t = "String" /\ entry[2].t = "Mapping"

FindLastRuleset(rules) ==
    IF \E i \in 1..Len(rules) : IsRuleset(rules[i])
    THEN CHOOSE i \in 1..Len(rules) :
            IsRuleset(rules[i]) /\ \A j \in (i + 1)..Len(rules) : ~IsRuleset(rules[j])
    ELSE 0

\* rules.iter().find(..): the index of the first entry the closure accepts, 0 if none
RECURSIVE FindFrom(_, _)
FindFrom(rules, i) ==
    IF i > Len(rules) THEN 0
    ELSE IF IsRuleset(rules[i]) THEN i
    ELSE FindFrom(rules, i + 1)

FindRuleset(rules) == FindFrom(rules, 1)

FileLookupSwapped(config) ==
    LET path == Mapping_get(config, V_String("file"))
    IN  IF path.found
        THEN IF as_str(path.v).some
             THEN [err |-> NoErr, filepath |-> as_str(path.v).v,
                   out |-> << <<"Using file: ", as_str(path.v).v>> >>]
             ELSE [err |-> ERR_CONFIG_MISSING_FILE, filepath |-> "", out |-> <<>>]
        ELSE [err |-> ERR_INPUT_FILE_TYPE_MISMATCH, filepath |-> "", out |-> <<>>]

\* lines 61-75: look for the 'file' entry
FileLookup(config) ==
    LET path == Mapping_get(config, V_String("file"))
    IN  IF path.found
        THEN IF as_str(path.v).some
             THEN [err |-> NoErr, filepath |-> as_str(path.v).v,
                   out |-> << <<"Using file: ", as_str(path.v).v>> >>]
             ELSE [err |-> ERR_INPUT_FILE_TYPE_MISMATCH, filepath |-> "", out |-> <<>>]
        ELSE [err |-> ERR_CONFIG_MISSING_FILE, filepath |-> "", out |-> <<>>]

\* lines 86-95: the preset of one module entry
ModulePreset(mod_config) ==
    LET p == Mapping_get(mod_config, V_String("preset"))
    IN  IF p.found
        THEN IF ~is_string(p.v) THEN [err |-> ERR_PRESET_TYPE_MISMATCH, pre |-> None]
             ELSE [err |-> NoErr, pre |-> Some(as_str(p.v).v)]
        ELSE [err |-> NoErr, pre |-> None]

RECURSIVE ReadModulesSkipping(_, _, _, _)
ReadModulesSkipping(entries, i, module_confs, printed) ==
    IF i > Len(entries)
    THEN [err |-> NoErr, modules |-> module_confs, out |-> printed]
    ELSE IF entries[i][1].t = "String" /\ entries[i][2].t = "Mapping"
    THEN LET mod_name == entries[i][1].s
             mp == ModulePreset(entries[i][2].m)
         IN  IF mp.err # NoErr
             THEN [err |-> mp.err, modules |-> module_confs, out |-> printed]
             ELSE ReadModulesSkipping(entries, i + 1,
                     Append(module_confs, with_fields(mod_name, mp.pre)),
                     Append(printed,
                        <<"Loaded module '", mod_name, "' with preset '",
                          unwrap_or(mp.pre, "None"), "'">>))
    ELSE ReadModulesSkipping(entries, i + 1, module_confs, printed)

\* lines 82-105: the loop over the entries left once "file" is removed
RECURSIVE ReadModules(_, _, _, _)
ReadModules(entries, i, module_confs, printed) ==
    IF i > Len(entries)
    THEN [err |-> NoErr, modules |-> module_confs, out |-> printed]
    ELSE IF entries[i][1].t = "String" /\ entries[i][2].t = "Mapping"
    THEN LET mod_name == entries[i][1].s
             mp == ModulePreset(entries[i][2].m)
         IN  IF mp.err # NoErr
             THEN [err |-> mp.err, modules |-> module_confs, out |-> printed]
             ELSE ReadModules(entries, i + 1,
                     Append(module_confs, with_fields(mod_name, mp.pre)),
                     Append(printed,
                        <<"Loaded module '", mod_name, "' with preset '",
                          unwrap_or(mp.pre, "None"), "'">>))
    ELSE [err |-> ERR_MODULE_TYPE_MISMATCH, modules |-> module_confs, out |-> printed]

\* The result: err = NoErr stands for Ok(ChiselContext {file, modules}); out
\* is what the function printed before it returned.
from_ruleset(ruleset) ==
    IF ruleset.t = "Mapping"
    THEN LET rules == ruleset.m
             found == FindRuleset(rules)
         IN  IF found # 0
             THEN LET config == rules[found][2].m
                      f == FileLookup(config)
                  IN  IF f.err # NoErr
                      THEN [err |-> f.err, file |-> "", modules |-> <<>>, out |-> f.out]
                      ELSE LET config_clone == Mapping_remove(config, V_String("file"))
                               r == ReadModules(config_clone, 1, <<>>, f.out)
                           IN  IF r.err # NoErr
                               THEN [err |-> r.err, file |-> "", modules |-> <<>>,
                                     out |-> r.out]
                               ELSE [err |-> NoErr, file |-> f.filepath,
                                     modules |-> r.modules, out |-> r.out]
             ELSE [err |-> ERR_CONFIG_INVALID, file |-> "", modules |-> <<>>, out |-> <<>>]
    ELSE [err |-> ERR_CONFIG_INVALID, file |-> "", modules |-> <<>>, out |-> <<>>]

\* lines 146-152
yaml_configure(yaml) ==
    IF yaml # Unparsable
    THEN from_ruleset(yaml)
    ELSE [err |-> ERR_FAILED_PARSE_CONFIG, file |-> "", modules |-> <<>>, out |-> <<>>]

----------------------------------------------------------------------------
(* The libchisel capabilities execute_module calls.  Result<bool, _> is    *)
(* Ok(b) or Err.                                                           *)

Ok(b) == [ok |-> TRUE, v |-> b]
Err == [ok |-> FALSE]
Results == {Ok(TRUE), Ok(FALSE), Err}

\* Result::unwrap_or
result_unwrap_or(r, d) == IF r.ok THEN r.v ELSE d

\* the presets a capability can be constructed with
KnownPresets == {"ewasm"}

\* VerifyExports::with_preset: TRUE for Ok(chisel), FALSE for Err
VerifyExports_with_preset(preset) == preset \in KnownPresets

\* VerifyExports::validate on the decoded module
VerifyExports_validate(preset, m) == m.exports

\* VerifyImports::with_preset
VerifyImports_with_preset(preset) == preset \in KnownPresets

\* VerifyImports::validate on the decoded module
VerifyImports_validate(preset, m) == m.imports

\* CheckStartFunc::new(start_required).validate
CheckStartFunc_validate(start_required, m) == Ok(start_required = m.start)

\* what deserialize_buffer can decode a binary to: how the module fares
\* under export verification and import verification, and whether it has a
\* start section
Artifacts == [loaded : {TRUE}, exports : Results, imports : Results, start : BOOLEAN]

----------------------------------------------------------------------------
(* execute_module, main.rs lines 154-189. *)

EmptyPresetDefaulted(context) ==
    IF context.preset.some /\ context.preset.v # "" THEN context.preset.v ELSE "ewasm"

\* lines 156-159
EffectivePreset(context) == unwrap_or(context.preset, "ewasm")

\* lines 161-188
execute_module(context, m) ==
    LET preset == EffectivePreset(context)
        name == context.module_name
    IN  IF name = "verifyexports"
        THEN IF VerifyExports_with_preset(preset)
             THEN result_unwrap_or(VerifyExports_validate(preset, m), FALSE)
             ELSE FALSE
        ELSE IF name = "verifyimports"
        THEN IF VerifyExports_with_preset(preset)
             THEN result_unwrap_or(VerifyExports_validate(preset, m), FALSE)
             ELSE FALSE
        ELSE IF name = "checkstartfunc"
        THEN result_unwrap_or(CheckStartFunc_validate(FALSE, m), FALSE)
        ELSE FALSE

FoldOr(b, e) == e \/ b

\* the closure of the fold, line 198
Fold(b, e) == e /\ b

----------------------------------------------------------------------------
(* The documents the configuration file can hold. *)

TopNames == <<"suite", "second", "third", "fourth">>

\* the entries of the ruleset bodies resolution is checked on
ResolveEntries ==
    { <<V_String("file"), V_String("a.wasm")>>,
      <<V_String("file"), V_String("")>>,
      <<V_String("file"), V_Null>>,
      <<V_String("verifyexports"), V_Mapping(<<>>)>>,
      <<V_String("verifyexports"), V_Mapping(<< <<V_String("preset"), V_String("ewasm")>> >>)>>,
      <<V_String("verifyexports"), V_Mapping(<< <<V_String("preset"), V_Null>> >>)>>,
      <<V_String("verifyexports"), V_Null>>,
      <<V_String("unknowncheck"), V_Mapping(<<>>)>>,
      <<V_String("unknowncheck"), V_String("yes")>>,
      <<V_Null, V_Mapping(<<>>)>> }

ModuleNames == {"verifyexports", "verifyimports", "checkstartfunc", "unknowncheck"}

ModuleFlags ==
    { <<>>,
      << <<V_String("preset"), V_String("ewasm")>> >>,
      << <<V_String("preset"), V_String("")>> >> }

\* the entries of the ruleset bodies a run is checked on
RunEntries ==
    { <<V_String("file"), V_String("a.wasm")>>, <<V_String("unknowncheck"), V_Null>> }
    \cup { <<V_String(n), V_Mapping(f)>> : n \in ModuleNames, f \in ModuleFlags }

\* TRUE when the key of the last entry of b is the key of no earlier entry
LastKeyIsNew(b) == \A i \in 1..(Len(b) - 1) : b[i][1] # b[Len(b)][1]

\* the mappings of exactly n entries drawn from E, with pairwise distinct keys
RECURSIVE BodiesOfLen(_, _)
BodiesOfLen(E, n) ==
    IF n = 0 THEN {<<>>}
    ELSE { x \in { Append(b, e) : b \in BodiesOfLen(E, n - 1), e \in E } : LastKeyIsNew(x) }

ResolveBodies == [n \in 0..MaxEntries |-> BodiesOfLen(ResolveEntries, n)]

\* what the i-th top-level entry can be when it holds exactly n body entries:
\* a ruleset of n entries or, for n = 0, an entry that is no ruleset
TopEntriesAt(i, n) ==
    { <<V_String(TopNames[i]), V_Mapping(b)>> : b \in ResolveBodies[n] }
    \cup (IF n = 0
          THEN { <<V_Number(i), V_Mapping(<<>>)>>, <<V_String(TopNames[i]), V_Null>> }
          ELSE {})

\* the top-level mappings of exactly k entries whose rulesets hold exactly
\* n body entries in all
RECURSIVE TopsOfLen(_, _)
TopsOfLen(k, n) ==
    IF k = 0 THEN (IF n = 0 THEN {<<>>} ELSE {})
    ELSE UNION { { Append(d, e) : d \in TopsOfLen(k - 1, n - j), e \in TopEntriesAt(k, j) }
                 : j \in 0..n }

\* documents that are no mapping, or a mapping of no entry
FlatDocs == {V_Null, V_String("suite"), V_Mapping(<<>>)}

\* documents of one ruleset of at most MaxEntries entries
RunDocs ==
    {Unparsable}
    \cup { V_Mapping(<< <<V_String("suite"), V_Mapping(b)>> >>)
           : b \in UNION { BodiesOfLen(RunEntries, n) : n \in 0..MaxEntries } }

----------------------------------------------------------------------------
(* The process: main, chisel_subcommand_run, chisel_execute. *)

\* process::exit(code): the status the parent sees
ExitStatus(code) == <<code % 256>>

err_exit_failure(msg, printed) ==
    /\ out' = Append(printed, <<"chisel", ": ", msg>>)
    /\ err' = msg
    /\ exitCode' = ExitStatus(1)
    /\ pc' = "Errored"

\* err_exit, lines 141-144, after the lines `printed` were printed
err_exit(msg, printed) ==
    /\ out' = Append(printed, <<"chisel", ": ", msg>>)
    /\ err' = msg
    /\ exitCode' = ExitStatus(-1)
    /\ pc' = "Errored"

Init ==
    /\ pc = "main"
    /\ conf = NoConf
    /\ ctx = [file |-> "", modules |-> <<>>]
    /\ err = NoErr
    /\ out = <<>>
    /\ exitCode = NotExited
    /\ module = NoModule
    /\ idx = 1
    /\ acc = TRUE
    /\ dispatched = <<>>

\* main, lines 246-249
Main ==
    /\ pc = "main"
    /\ \/ /\ pc' = "ReadConfig"
          /\ UNCHANGED <<err, out, exitCode>>
       \/ err_exit(ERR_NO_SUBCOMMAND, out)
    /\ UNCHANGED <<conf, ctx, module, idx, acc, dispatched>>

\* chisel_subcommand_run, lines 209-211: read_to_string returned the text of d
ConfigRead(d) ==
    /\ conf' = d
    /\ pc' = "Configure"
    /\ UNCHANGED <<err, out, exitCode>>

\* chisel_subcommand_run, lines 223-225: read_to_string failed
ConfigUnreadable ==
    /\ err_exit(ERR_FAILED_OPEN_CONFIG, out)
    /\ UNCHANGED conf

\* the configuration file holds one ruleset of at most MaxEntries entries
ReadConfig ==
    /\ pc = "ReadConfig"
    /\ \/ \E d \in RunDocs : ConfigRead(d)
       \/ ConfigUnreadable
    /\ UNCHANGED <<ctx, module, idx, acc, dispatched>>

\* the configuration file holds a document of at most MaxTop top-level
\* entries and at most MaxEntries body entries
ReadConfigR ==
    /\ pc = "ReadConfig"
    /\ \/ \E d \in FlatDocs : ConfigRead(d)
       \/ \E k \in 1..MaxTop, n \in 0..MaxEntries :
            \E j \in 0..n :
               \E d \in TopsOfLen(k - 1, n - j), e \in TopEntriesAt(k, j) :
                  ConfigRead(V_Mapping(Append(d, e)))
       \/ ConfigUnreadable
    /\ UNCHANGED <<ctx, module, idx, acc, dispatched>>

\* chisel_subcommand_run, lines 212-213 and 221: yaml_configure(conf)
Configure ==
    /\ pc = "Configure"
    /\ LET r == yaml_configure(conf)
       IN  IF r.err = NoErr
           THEN /\ ctx' = [file |-> r.file, modules |-> r.modules]
                /\ out' = out \o r.out
                /\ pc' = "LoadBinary"
                /\ UNCHANGED <<err, exitCode>>
           ELSE /\ err_exit(r.err, out \o r.out)
                /\ UNCHANGED ctx
    /\ UNCHANGED <<conf, module, idx, acc, dispatched>>

\* chisel_execute, lines 192-193 and 200-205, with line 219
LoadBinary ==
    /\ pc = "LoadBinary"
    /\ \/ /\ err_exit(ERR_FAILED_OPEN_BINARY, out)
          /\ UNCHANGED module
       \/ /\ err_exit(ERR_DESERIALIZE_MODULE, out)
          /\ UNCHANGED module
       \/ /\ \E m \in Artifacts : module' = m
          /\ pc' = "ExecuteModules"
          /\ UNCHANGED <<err, out, exitCode>>
    /\ UNCHANGED <<conf, ctx, idx, acc, dispatched>>

ExecuteModuleAborting ==
    /\ pc = "ExecuteModules"
    /\ idx <= Len(ctx.modules)
    /\ LET e == execute_module(ctx.modules[idx], module)
       IN  /\ acc' = Fold(acc, e)
           /\ dispatched' = Append(dispatched,
                 [name |-> ctx.modules[idx].module_name,
                  preset |-> EffectivePreset(ctx.modules[idx]),
                  verdict |-> e])
           /\ idx' = IF e THEN idx + 1 ELSE Len(ctx.modules) + 1
    /\ UNCHANGED <<pc, conf, ctx, err, out, exitCode, module>>

\* chisel_execute, lines 194-198: one step of the map and of the fold
ExecuteModule ==
    /\ pc = "ExecuteModules"
    /\ idx <= Len(ctx.modules)
    /\ LET e == execute_module(ctx.modules[idx], module)
       IN  /\ acc' = Fold(acc, e)
           /\ dispatched' = Append(dispatched,
                 [name |-> ctx.modules[idx].module_name,
                  preset |-> EffectivePreset(ctx.modules[idx]),
                  verdict |-> e])
    /\ idx' = idx + 1
    /\ UNCHANGED <<pc, conf, ctx, err, out, exitCode, module>>

\* chisel_execute line 199, chisel_subcommand_run lines 214-218, main line 247
Finish ==
    /\ pc = "ExecuteModules"
    /\ idx > Len(ctx.modules)
    /\ exitCode' = ExitStatus(IF acc THEN 0 ELSE 1)
    /\ pc' = "Done"
    /\ UNCHANGED <<conf, ctx, err, out, module, idx, acc, dispatched>>

Next == Main \/ ReadConfig \/ Configure \/ LoadBinary \/ ExecuteModule \/ Finish

Spec == Init /\ [][Next]_vars

\* the run under the assumption that every step that can be taken is taken
FairSpec == Spec /\ WF_vars(Next)

NextR == Main \/ ReadConfigR \/ Configure

\* resolution alone, over the documents of ResolveDocs
SpecResolve == Init /\ [][NextR]_vars

----------------------------------------------------------------------------
(* What the properties speak of. *)

ResolutionErrors ==
    {ERR_FAILED_PARSE_CONFIG, ERR_CONFIG_INVALID, ERR_CONFIG_MISSING_FILE,
     ERR_INPUT_FILE_TYPE_MISMATCH, ERR_MODULE_TYPE_MISMATCH, ERR_PRESET_TYPE_MISMATCH}

\* yaml_configure has returned on a document
Resolved == conf # NoConf /\ conf # Unparsable /\ pc # "Configure"

ResolutionFailedWith(e) == Resolved /\ pc = "Errored" /\ err = e

ResolutionSucceeded == Resolved /\ ~(pc = "Errored" /\ err \in ResolutionErrors)

\* the document has a top-level entry of a string key and a mapping value
HasRuleset(doc) ==
    doc.t = "Mapping" /\ \E i \in 1..Len(doc.m) : doc.m[i][1].t = "String" /\ doc.m[i][2].t = "Mapping"

\* the first such entry in document order
SelectedEntry(doc) ==
    LET i == CHOOSE i \in 1..Len(doc.m) :
                /\ doc.m[i][1].t = "String" /\ doc.m[i][2].t = "Mapping"
                /\ \A j \in 1..(i - 1) : ~(doc.m[j][1].t = "String" /\ doc.m[j][2].t = "Mapping")
    IN  doc.m[i]

SelectedBody(doc) == SelectedEntry(doc)[2].m

FileEntries(body) == { i \in 1..Len(body) : body[i][1] = V_String("file") }

\* the entries of the ruleset that declare modules, in document order
Declarations(body) == SelectSeq(body, LAMBDA e : e[1] # V_String("file"))

BadShape(e) == e[1].t # "String" \/ e[2].t # "Mapping"

PresetEntries(e) == { i \in 1..Len(e[2].m) : e[2].m[i][1] = V_String("preset") }

BadPreset(e) ==
    /\ ~BadShape(e)
    /\ \E i \in PresetEntries(e) : e[2].m[i][2].t # "String"

\* the preset a well-formed declaration declares, None when it declares none
DeclaredPreset(e) ==
    IF PresetEntries(e) = {} THEN None
    ELSE Some(e[2].m[CHOOSE i \in PresetEntries(e) : TRUE][2].s)

FileIsString(body) == \E i \in FileEntries(body) : body[i][2].t = "String"

BinaryErrors == {ERR_FAILED_OPEN_BINARY, ERR_DESERIALIZE_MODULE}

IsStatusLine(l) == Len(l) = 3 /\ l[2] = ": " /\ l[3] \in {"GOOD", "BAD"}

StatusLines == SelectSeq(out, IsStatusLine)

IsErrorLine(l) == Len(l) = 3 /\ l[1] = "chisel" /\ l[2] = ": "

\* what an import-verification capability would answer for the module
ImportVerdict(preset, m) ==
    IF VerifyImports_with_preset(preset)
    THEN result_unwrap_or(VerifyImports_validate(preset, m), FALSE)
    ELSE FALSE

----------------------------------------------------------------------------
(* The properties. *)

\* C1: from_ruleset resolves the first top-level entry of a string key and a
\* mapping value: the outcome (the context, or the error) is the outcome of the
\* document made of that entry alone, whatever the other entries are, and a
\* document with no such entry, or that is no mapping, fails with
\* ERR_CONFIG_INVALID.
C1_FirstRulesetDecides ==
    Resolved =>
        IF HasRuleset(conf)
        THEN LET alone == from_ruleset(V_Mapping(<<SelectedEntry(conf)>>))
             IN  IF alone.err = NoErr
                 THEN /\ ResolutionSucceeded
                      /\ ctx = [file |-> alone.file, modules |-> alone.modules]
                 ELSE ResolutionFailedWith(alone.err)
        ELSE ResolutionFailedWith(ERR_CONFIG_INVALID)

\* C1 witness: a document of two rulesets, the first of which resolves and
\* the second of which does not, has been resolved.
C1_Witness ==
    /\ ResolutionSucceeded
    /\ Len(conf.m) >= 2
    /\ \E i, j \in 1..Len(conf.m) :
          /\ i < j
          /\ IsRuleset(conf.m[i]) /\ IsRuleset(conf.m[j])
          /\ from_ruleset(V_Mapping(<<conf.m[i]>>)).err = NoErr
          /\ from_ruleset(V_Mapping(<<conf.m[j]>>)).err # NoErr

\* C2: when the selected ruleset has no "file" entry resolution fails with
\* ERR_CONFIG_MISSING_FILE, and when its "file" entry is no string it fails
\* with ERR_INPUT_FILE_TYPE_MISMATCH, whatever the module entries are.
C2_FileErrors ==
    (Resolved /\ HasRuleset(conf)) =>
        LET body == SelectedBody(conf)
        IN  /\ FileEntries(body) = {} => ResolutionFailedWith(ERR_CONFIG_MISSING_FILE)
            /\ (\E i \in FileEntries(body) : body[i][2].t # "String")
                  => ResolutionFailedWith(ERR_INPUT_FILE_TYPE_MISMATCH)

\* C2 witness: a ruleset with a malformed module entry and a "file" entry
\* that is no string has been resolved.
C2_Witness ==
    /\ Resolved /\ HasRuleset(conf)
    /\ \E i \in FileEntries(SelectedBody(conf)) : SelectedBody(conf)[i][2].t # "String"
    /\ \E k \in 1..Len(Declarations(SelectedBody(conf))) :
          BadShape(Declarations(SelectedBody(conf))[k])

\* C3 as stated: every entry other than "file" with a key that is no string
\* or a value that is no mapping makes resolution fail with
\* ERR_MODULE_TYPE_MISMATCH, every entry whose "preset" is no string makes it
\* fail with ERR_PRESET_TYPE_MISMATCH, and every other entry becomes a module.
C3_AsStated ==
    (Resolved /\ HasRuleset(conf)) =>
        LET decls == Declarations(SelectedBody(conf))
        IN  \A k \in 1..Len(decls) :
               /\ BadShape(decls[k]) => ResolutionFailedWith(ERR_MODULE_TYPE_MISMATCH)
               /\ BadPreset(decls[k]) => ResolutionFailedWith(ERR_PRESET_TYPE_MISMATCH)

\* C3 amended: when the "file" entry of the selected ruleset is a string, the
\* first entry other than "file", in document order, that is malformed decides
\* the error: ERR_MODULE_TYPE_MISMATCH when its key is no string or its value
\* no mapping, ERR_PRESET_TYPE_MISMATCH when its "preset" is no string; when
\* no entry is malformed resolution succeeds and every entry is a module of
\* the context, in document order, whatever its name.
C3_FirstMalformedDecides ==
    (Resolved /\ HasRuleset(conf) /\ FileIsString(SelectedBody(conf))) =>
        LET decls == Declarations(SelectedBody(conf))
            bad == { k \in 1..Len(decls) : BadShape(decls[k]) \/ BadPreset(decls[k]) }
        IN  IF bad # {}
            THEN LET k == CHOOSE k \in bad : \A l \in bad : k <= l
                 IN  ResolutionFailedWith(IF BadShape(decls[k])
                                          THEN ERR_MODULE_TYPE_MISMATCH
                                          ELSE ERR_PRESET_TYPE_MISMATCH)
            ELSE /\ ResolutionSucceeded
                 /\ Len(ctx.modules) = Len(decls)
                 /\ \A k \in 1..Len(decls) : ctx.modules[k].module_name = decls[k][1].s

\* C3 witness: a ruleset with a string "file", an entry whose "preset" is no
\* string and a later entry whose value is no mapping has been resolved.
C3_Witness ==
    /\ Resolved /\ HasRuleset(conf) /\ FileIsString(SelectedBody(conf))
    /\ \E k, l \in 1..Len(Declarations(SelectedBody(conf))) :
          /\ k < l
          /\ BadPreset(Declarations(SelectedBody(conf))[k])
          /\ BadShape(Declarations(SelectedBody(conf))[l])
    /\ pc = "Errored"

\* C4: the verdict of every "verifyimports" module is the answer of the
\* import-verification capability.
C4_ImportsVerified ==
    \A k \in 1..Len(dispatched) :
        dispatched[k].name = "verifyimports"
            => dispatched[k].verdict = ImportVerdict(dispatched[k].preset, module)

\* C5: once the modules are being executed the run does not abort: the
\* modules dispatched so far are the first modules of the context, each once
\* and in declaration order, whatever their verdicts; the run leaves that
\* stage only for Done, with every module dispatched; and it reaches Done.
C5_EveryModuleRuns ==
    /\ [](pc \in {"ExecuteModules", "Done"} =>
            /\ Len(dispatched) = idx - 1
            /\ Len(dispatched) <= Len(ctx.modules)
            /\ \A k \in 1..Len(dispatched) : dispatched[k].name = ctx.modules[k].module_name
            /\ pc = "Done" => Len(dispatched) = Len(ctx.modules))
    /\ [][pc = "ExecuteModules" => pc' \in {"ExecuteModules", "Done"}]_vars
    /\ (pc = "ExecuteModules" ~> pc = "Done")

\* C5 witness: the run is Done and a module whose verdict is false, of a name
\* that is not recognized, was followed by another module.
C5_Witness ==
    /\ pc = "Done"
    /\ Len(dispatched) >= 2
    /\ dispatched[1].name = "unknowncheck"
    /\ ~dispatched[1].verdict

\* C6: when the run is Done the overall result is the conjunction of the
\* verdicts of all the modules (true when there is none), the exit code is 0
\* exactly when it is true and 1 exactly when some verdict is false.
C6_OverallIsConjunction ==
    pc = "Done" =>
        /\ Len(dispatched) = Len(ctx.modules)
        /\ acc = (\A k \in 1..Len(dispatched) : dispatched[k].verdict)
        /\ exitCode = <<0>> <=> (\A k \in 1..Len(dispatched) : dispatched[k].verdict)
        /\ exitCode = <<1>> <=> (\E k \in 1..Len(dispatched) : ~dispatched[k].verdict)

\* C6 witness: the run is Done with exit code 1 after a module that passed
\* and a module that failed.
C6_Witness ==
    /\ pc = "Done"
    /\ exitCode = <<1>>
    /\ \E k, l \in 1..Len(dispatched) : dispatched[k].verdict /\ ~dispatched[l].verdict

\* C7 as stated: when the binary cannot be read or decoded no module has been
\* dispatched, exactly one message has been printed and the exit code is
\* neither 0 nor 1.
C7_AsStated ==
    (pc = "Errored" /\ err \in BinaryErrors) =>
        /\ dispatched = <<>>
        /\ StatusLines = <<>>
        /\ Len(out) = 1
        /\ exitCode \notin {<<0>>, <<1>>, NotExited}

\* C7 amended: when the binary cannot be read or decoded the run ends with
\* ERR_FAILED_OPEN_BINARY or ERR_DESERIALIZE_MODULE, no module has been
\* dispatched, no status line has been printed, exactly one error message has
\* been printed, as the last line, after the lines resolution printed (the
\* file and one line a module), and the exit code is 255.
C7_OneErrorMessage ==
    /\ (pc = "Errored" /\ err \in BinaryErrors) =>
          /\ dispatched = <<>>
          /\ StatusLines = <<>>
          /\ Len(out) = Len(ctx.modules) + 2
          /\ out[1] = <<"Using file: ", ctx.file>>
          /\ out[Len(out)] = <<"chisel", ": ", err>>
          /\ \A k \in 1..(Len(out) - 1) : ~IsErrorLine(out[k])
          /\ exitCode = <<255>>
    /\ (pc = "Errored" /\ ResolutionSucceeded) => err \in BinaryErrors
    /\ (pc \in {"ExecuteModules", "Done"}) => module \in Artifacts

\* C7 witness: the binary of a context of two modules could not be decoded.
C7_Witness ==
    /\ pc = "Errored"
    /\ err = ERR_DESERIALIZE_MODULE
    /\ Len(ctx.modules) = 2

\* C8: when the run is Done the status lines printed are one a module, in
\* the order of execution, "<name>: GOOD" for a true verdict and
\* "<name>: BAD" for a false one.
C8_StatusLines ==
    pc = "Done" =>
        StatusLines = [k \in 1..Len(dispatched) |->
                          <<dispatched[k].name, ": ",
                            IF dispatched[k].verdict THEN "GOOD" ELSE "BAD">>]

\* C9: the file of a context resolution built is not the empty string.
C9_FileNonEmpty == ResolutionSucceeded => ctx.file # ""

\* C10: resolution keeps the preset of a module as declared, absent when
\* none is declared and the declared string otherwise, the empty string
\* included; the preset the module is dispatched with is the declared string,
\* and "ewasm" only when none is declared.
C10_PresetDefaultedAtDispatch ==
    (ResolutionSucceeded /\ HasRuleset(conf)) =>
        LET decls == Declarations(SelectedBody(conf))
        IN  /\ Len(ctx.modules) = Len(decls)
            /\ \A k \in 1..Len(decls) : ctx.modules[k].preset = DeclaredPreset(decls[k])
            /\ \A k \in 1..Len(dispatched) :
                  dispatched[k].preset =
                      IF DeclaredPreset(decls[k]).some
                      THEN DeclaredPreset(decls[k]).v
                      ELSE "ewasm"

\* C10 witness: a module that declares the empty preset and a module that
\* declares none have been dispatched, with "" and with "ewasm".
C10_Witness ==
    /\ pc = "Done"
    /\ \E k, l \in 1..Len(dispatched) :
          /\ ctx.modules[k].preset = Some("") /\ dispatched[k].preset = ""
          /\ ctx.modules[l].preset = None /\ dispatched[l].preset = "ewasm"

====
